---- MODULE Spec2Model ----
(***************************************************************************)
(* Presence and messaging core of backend-vauju.                           *)
(*                                                                         *)
(* controllers/messageController.js exists in two builds: the plain-text   *)
(* controller (lines 1-229, "version 1") and the encrypted controller with *)
(* queued socket delivery (lines 231-476, "version 2").  Each build has a  *)
(* durable path (Mongoose) and an in-memory fallback path, selected by     *)
(* isDbConnected().  The build and the path are fixed per behaviour.       *)
(*                                                                         *)
(* Time is the value of Date.now() in milliseconds; the clock is sampled   *)
(* every TickMs, so two handlers that run between two ticks read the same  *)
(* millisecond.                                                            *)
(***************************************************************************)
EXTENDS Integers, Sequences, FiniteSets, TLC

\* ---------------------------------------------------------------- bounds
MaxNow == 3          \* last clock sample, in ticks
MaxStoreNow == 2     \* last clock sample while the store is exercised
MaxMsgs == 2         \* messages created per behaviour (stored + in flight)
MaxPushMsgs == 1     \* messages created per behaviour when sockets are live
MaxSeenMsgs == 1     \* messages created per behaviour next to heartbeats
MaxReceived == 2     \* message pushes logged per socket
MaxOrderNow == 2     \* last clock sample next to concurrent sends
MaxOrderMsgs == 2    \* messages created next to conversation reads
MaxDeleteMsgs == 2   \* messages created next to per-viewer deletes
MaxNotifyMsgs == 2   \* messages created next to read receipts
MaxEquivNow == 2     \* last clock sample of the lockstep run
MaxEquivMsgs == 1    \* messages created by the lockstep run
MaxPending == 0      \* flush timers pending when a delivery is queued
MaxMutateMsgs == 1   \* messages created next to every message mutator
MaxIndepMsgs == 2    \* messages created next to deletes and unsends
MaxOldPushMsgs == 1  \* messages created next to the older server's sockets
MaxSweepNow == 3     \* last clock sample next to the periodic sweep
MaxTasks == 2        \* socket handlers suspended at the same time
MaxEdits == 2        \* profile edits per user
MaxPage == 2         \* pages of a match list
MaxRequests == 2     \* profile requests suspended at the same time
MaxBatchMsgs == 2    \* messages created next to batched delivery
MaxBatchPending == 4 \* flush timers pending when a batched delivery is queued

\* ------------------------------------------------------------- constants
TickMs == 60000
PRESENCE_TTL_MS == 60 * 1000

Users == {"alice", "bob"}
Conns == {"s1", "s2"}
NoUser == ""                     \* a request body without `to`
NoText == ""                     \* a request body without `text`
Texts == {"hi"}
Absent == "<undefined>"          \* a field the document does not carry
NoId == 0                        \* a message id no message has

VARIABLES
  version,        \* 1: plain-text controller, 2: encrypted controller
  dbConnected,    \* isDbConnected() && mongoose.connection.readyState === 1
  now,            \* Date.now()
  db,             \* the messages collection, in insertion order
  nextOid,        \* next fresh ObjectId
  inflight,       \* Message.create calls stamped but not yet inserted
  messageStore,   \* the in-memory store { messages, presence }
  userSockets,    \* server.js: Map userId -> Set of socket ids
  connected,      \* live sockets
  socketUserId,   \* socket.userId
  sendQueue,      \* version 2: Map userId -> queued payloads (string keys)
  timers,         \* version 2: pending setTimeout(flushQueue), oldest first
  pendingLog,     \* history: per user, the entries queued and not yet flushed
  emitted,        \* events pushed to each socket by the last step
  res,            \* the response of the last handler
  redisConnected, \* safeRedisClient.isConnected()
  redis,          \* the Redis server: users:online and user:presence:* keys
  memoryStore,    \* cacheService.js in-memory fallback { onlineUsers, cache }
  activeHeartbeats, \* PresenceService: users with a heartbeat interval
  lastHeartbeat,  \* history: Date.now() of each user's last heartbeat request
  lastCacheCall,  \* history: each user's last setUserOnline/setUserOffline
  received,       \* history: message ids pushed to each socket so far
  lastEvent,      \* history: the last socket event handled, where recorded
  twin,           \* lockstep run: presence and response of the durable path
  tasks,          \* handlers suspended at an await, with their position
  profile         \* users' profiles, the profile and match-list caches

msgVars == <<db, nextOid, inflight, messageStore>>
sockVars == <<userSockets, connected, socketUserId>>
queueVars == <<sendQueue, timers, pendingLog>>
cacheVars == <<redisConnected, redis, memoryStore, activeHeartbeats>>
cfgVars == <<version, dbConnected, twin, tasks, profile>>
histVars == <<lastHeartbeat, lastCacheCall>>
logVars == <<received, lastEvent>>

vars == <<version, dbConnected, now, db, nextOid, inflight, messageStore,
          userSockets, connected, socketUserId, sendQueue, timers, pendingLog,
          emitted,
          res, redisConnected, redis, memoryStore, activeHeartbeats,
          lastHeartbeat, lastCacheCall, received, lastEvent,
          twin, tasks, profile>>

\* --------------------------------------------------------------- helpers
UsesDb == dbConnected

\* encryptMessage(text, key): opaque to this core, injective on Texts.
encryptMessage(t) == IF t = "hi" THEN "enc(hi)" ELSE "enc(?)"

\* Array.prototype.find(x => x._id === id) / Message.findById: first match.
FindIdx(msgs, id) ==
  IF \E i \in 1..Len(msgs) : msgs[i]._id = id
  THEN CHOOSE i \in 1..Len(msgs) :
         /\ msgs[i]._id = id
         /\ \A j \in 1..(i-1) : msgs[j]._id # id
  ELSE 0

InSeq(x, s) == \E i \in 1..Len(s) : s[i] = x

\* userSockets.get(String(uid)) with `undefined` read as the empty set.
SocketsOf(uid) == IF uid \in DOMAIN userSockets THEN userSockets[uid] ELSE {}

NoEmits == [c \in Conns |-> <<>>]

\* sockets.forEach(sid => io.to(sid).emit(event, data)): one event to each
\* listed socket that is still live.
EmitTo(em, sids, ev) ==
  [c \in Conns |-> IF c \in sids /\ c \in connected THEN Append(em[c], ev)
                   ELSE em[c]]

\* A pushed event: its name, the ids of the messages in its payload, and the
\* user a presence event is about.
Event(name, ids, user) == [event |-> name, ids |-> ids, user |-> user]

\* io.emit(event, data): every live socket.
Broadcast(em, ev) == EmitTo(em, connected, ev)

\* res.status(status).json(body): the ids of the messages in the body, their
\* store positions and, for a single message, its seen flag.
Response(op, status, body) ==
  [op |-> op, status |-> status,
   ids |-> [i \in 1..Len(body) |-> body[i]._id],
   ns |-> [i \in 1..Len(body) |-> body[i].n],
   seen |-> IF Len(body) = 1 THEN body[1].seen ELSE FALSE]

\* isUserOnline(userId): heartbeat within PRESENCE_TTL_MS.
isUserOnline(presence, userId, t) ==
  LET ts == IF userId \in DOMAIN presence THEN presence[userId] ELSE 0
  IN IF ts = 0 THEN FALSE ELSE (t - ts) <= PRESENCE_TTL_MS

\* The document built by Message.create / the fallback object literal.  `n`
\* is history: the position at which the message entered the store.
NewMessage(n, id, from, to, text, t) ==
  [n |-> n, _id |-> id, from |-> from, to |-> to,
   text |-> IF version = 1 THEN text ELSE Absent,
   encryptedContent |-> IF version = 1 THEN Absent ELSE encryptMessage(text),
   seen |-> FALSE, isUnsent |-> FALSE, deletedFor |-> <<>>, createdAt |-> t]

\* Stable sort by createdAt ascending (Array.prototype.sort with a date
\* comparator; .sort({ createdAt: 1 }) over the collection's natural order).
RECURSIVE InsertSorted(_, _)
InsertSorted(m, s) ==
  IF s = <<>> THEN <<m>>
  ELSE IF m.createdAt < Head(s).createdAt THEN <<m>> \o s
  ELSE <<Head(s)>> \o InsertSorted(m, Tail(s))

RECURSIVE SortByCreatedAt(_)
SortByCreatedAt(s) ==
  IF s = <<>> THEN <<>>
  ELSE InsertSorted(s[Len(s)], SortByCreatedAt(SubSeq(s, 1, Len(s) - 1)))

RECURSIVE FilterSeq(_, _, _)
FilterSeq(s, viewer, other) ==
  IF s = <<>> THEN <<>>
  ELSE LET m == Head(s)
           keep == /\ \/ (m.from = viewer /\ m.to = other)
                      \/ (m.from = other /\ m.to = viewer)
                   /\ ~InSeq(viewer, m.deletedFor)
       IN (IF keep THEN <<m>> ELSE <<>>) \o FilterSeq(Tail(s), viewer, other)

\* (mutation: the .sort({ createdAt: 1 }) dropped)
ConversationDbUnsorted(msgs, viewer, other) == FilterSeq(msgs, viewer, other)

\* getConversation, durable path: find(...).sort({ createdAt: 1 }), then the
\* deletedFor filter.  Fallback path: filter, then sort the copy.
ConversationDb(msgs, viewer, other) ==
  FilterSeq(SortByCreatedAt(msgs), viewer, other)

ConversationMem(msgs, viewer, other) ==
  SortByCreatedAt(FilterSeq(msgs, viewer, other))

Stored == IF UsesDb THEN db ELSE messageStore.messages

Conversation(viewer, other) ==
  IF UsesDb THEN ConversationDb(db, viewer, other)
  ELSE ConversationMem(messageStore.messages, viewer, other)

\* ------------------------------------------------- store transformations
\* (mutation: the self-message rule dropped)
SeenAtSendNoSelf(presence, from, to, t) ==
  version = 1 /\ isUserOnline(presence, to, t)

\* seen as sendMessage computes it for a new message.
SeenAtSend(presence, from, to, t) ==
  IF version = 1 THEN (from = to) \/ isUserOnline(presence, to, t)
  ELSE from = to

\* (mutation: the flag flipped instead of set)
SetSeenToggle(msgs, id) ==
  LET i == FindIdx(msgs, id)
  IN IF i = 0 THEN msgs ELSE [msgs EXCEPT ![i].seen = ~@]

\* { seen: true } on the addressed message; msgs unchanged when it is missing.
SetSeen(msgs, id) ==
  LET i == FindIdx(msgs, id)
  IN IF i = 0 THEN msgs ELSE [msgs EXCEPT ![i].seen = TRUE]

\* (mutation: push without the includes test)
AddDeletedForAlways(msgs, id, userId) ==
  LET i == FindIdx(msgs, id)
  IN IF i = 0 THEN msgs
     ELSE [msgs EXCEPT ![i].deletedFor = Append(@, userId)]

\* $addToSet: { deletedFor: userId } / if (!includes(userId)) push(userId).
AddDeletedFor(msgs, id, userId) ==
  LET i == FindIdx(msgs, id)
  IN IF i = 0 THEN msgs
     ELSE IF InSeq(userId, msgs[i].deletedFor) THEN msgs
     ELSE [msgs EXCEPT ![i].deletedFor = Append(@, userId)]

\* { isUnsent: true, text: "" }.  The encrypted schema has no `text` path, so
\* Mongoose drops it from the update; the fallback object gains the field.
SetUnsent(msgs, id, viaDb) ==
  LET i == FindIdx(msgs, id)
  IN IF i = 0 THEN msgs
     ELSE [msgs EXCEPT ![i].isUnsent = TRUE,
                       ![i].text = IF viaDb /\ version = 2 THEN @ ELSE ""]

\* The payload field sendMessage wrote.
Content(m) == IF version = 1 THEN m.text ELSE m.encryptedContent

\* What each handler does to a message list and what it answers.  `viaDb`
\* tells the durable branch from the fallback branch of the same handler.

\* sendMessage after validation: the created message, appended.
SendResult(msgs, presence, id, from, to, text, createdAt, t) ==
  LET m == [NewMessage(Len(msgs) + 1, id, from, to, text, createdAt)
              EXCEPT !.seen = SeenAtSend(presence, from, to, t)]
  IN [msgs |-> Append(msgs, m), out |-> <<m>>,
      res |-> Response("sendMessage", 200, <<m>>)]

\* markSeen: version 1 answers res.json(null) for a missing document on the
\* durable branch, 404 everywhere else.
MarkSeenResult(msgs, viaDb, id) ==
  LET i == FindIdx(msgs, id)
      upd == SetSeen(msgs, id)
  IN IF i # 0
     THEN [msgs |-> upd, out |-> <<upd[i]>>,
           res |-> Response("markSeen", 200, <<upd[i]>>)]
     ELSE [msgs |-> msgs, out |-> <<>>,
           res |-> IF viaDb /\ version = 1
                   THEN Response("markSeen", 200, <<>>)
                   ELSE Response("markSeen", 404, <<>>)]

DeleteForMeResult(msgs, id, userId) ==
  LET i == FindIdx(msgs, id)
      upd == AddDeletedFor(msgs, id, userId)
  IN IF i = 0
     THEN [msgs |-> msgs, out |-> <<>>,
           res |-> Response("deleteForMe", 404, <<>>)]
     ELSE [msgs |-> upd, out |-> <<upd[i]>>,
           res |-> Response("deleteForMe", 200, <<upd[i]>>)]

UnsendResult(msgs, viaDb, id, userId) ==
  LET i == FindIdx(msgs, id)
      upd == SetUnsent(msgs, id, viaDb)
  IN IF i = 0
     THEN [msgs |-> msgs, out |-> <<>>,
           res |-> Response("unsendMessage", 404, <<>>)]
     ELSE IF msgs[i].from # userId
     THEN [msgs |-> msgs, out |-> <<>>,
           res |-> Response("unsendMessage", 403, <<>>)]
     ELSE [msgs |-> upd, out |-> <<upd[i]>>,
           res |-> Response("unsendMessage", 200, <<upd[i]>>)]

\* heartbeat: version 1 records nothing on the durable branch.
HeartbeatPresence(presence, viaDb, userId, t) ==
  IF version = 1 /\ viaDb THEN presence
  ELSE [presence EXCEPT ![userId] = t]

\* ------------------------------------------------------------- CacheService
TTL_PRESENCE == 90
NoPresence == [timestamp |-> 0, socketId |-> "", status |-> "none",
               expires |-> 0]

PresenceData(userId, sid, status, t) ==
  [timestamp |-> t, socketId |-> sid, status |-> status,
   expires |-> t + TTL_PRESENCE * 1000]

\* A setUserOnline that goes through the safe client only and skips the memory
\* branch.
setUserOnlineRedisOnly(c, up, userId, sid, t) ==
  IF up
  THEN [c EXCEPT !.redis.online = @ \cup {userId},
                 !.redis.presence[userId] = PresenceData(userId, sid, "online", t)]
  ELSE c

\* setUserOnline(userId, socketId): the Redis branch or the memory branch.
setUserOnline(c, up, userId, sid, t) ==
  IF up
  THEN [c EXCEPT !.redis.online = @ \cup {userId},
                 !.redis.presence[userId] = PresenceData(userId, sid, "online", t)]
  ELSE [c EXCEPT !.mem.onlineUsers = @ \cup {userId},
                 !.mem.cache[userId] = PresenceData(userId, sid, "online", t)]

\* setUserOffline(userId): sRem and setEx through the safe client, which does
\* nothing while Redis is not connected.
setUserOffline(c, up, userId, t) ==
  IF up
  THEN [c EXCEPT !.redis.online = @ \ {userId},
                 !.redis.presence[userId] = PresenceData(userId, "", "offline", t)]
  ELSE c

CacheIsUserOnline(c, up, userId) ==
  IF up THEN userId \in c.redis.online ELSE userId \in c.mem.onlineUsers

getOnlineUsers(c, up) == IF up THEN c.redis.online ELSE c.mem.onlineUsers

\* getUserPresence(userId): redisClient.get of a key that expires after
\* TTL.PRESENCE seconds; null (NoPresence) without Redis.
getUserPresence(c, up, userId, t) ==
  IF up /\ c.redis.presence[userId].status # "none"
        /\ t < c.redis.presence[userId].expires
  THEN c.redis.presence[userId]
  ELSE NoPresence

CacheState == [redis |-> redis, mem |-> memoryStore]

\* ---------------------------------------------------------- PresenceService
presenceTimeout == 90000

\* cleanupInactiveUsers: the online users whose presence record is readable
\* and older than presenceTimeout.
Inactive(c, up, t) ==
  {u \in getOnlineUsers(c, up) :
     /\ getUserPresence(c, up, u, t) # NoPresence
     /\ t - getUserPresence(c, up, u, t).timestamp > presenceTimeout}

\* The cache after handleUserDisconnect ran for every user of the set.
RECURSIVE SweepOffline(_, _, _, _)
SweepOffline(c, up, us, t) ==
  IF us = {} THEN c
  ELSE LET u == CHOOSE v \in us : TRUE
       IN SweepOffline(setUserOffline(c, up, u, t), up, us \ {u}, t)

\* The 'userOffline' and 'onlineUsersList' broadcasts of those calls.
RECURSIVE SweepEmits(_, _)
SweepEmits(em, us) ==
  IF us = {} THEN em
  ELSE LET u == CHOOSE v \in us : TRUE
       IN SweepEmits(Broadcast(Broadcast(em, Event("userOffline", <<>>, u)),
                               Event("onlineUsersList", <<>>, "")),
                     us \ {u})

\* The history entry of a setUserOnline or setUserOffline call made now.
Called(userId, op) == [lastCacheCall EXCEPT ![userId] = [op |-> op, at |-> now]]

\* ------------------------------------------------------ profile caching
\* A profile is the number of edits it has received.  Entries are observed
\* within their TTL (300 s for profiles, 180 s for match lists).
NoProfile == -1   \* null: no cached profile
NoEntry == [kind |-> "none", val |-> NoProfile]
Pages == 1..MaxPage

\* memoryStore.cache holds the object it was given: the devStore user itself
\* on the fallback path ("ref"), a document of its own on the durable path.
MemRead(p, userId) ==
  IF p.mem[userId].kind = "ref" THEN p.store[userId] ELSE p.mem[userId].val

\* getUserProfile(userId): the Redis key, or the memory entry.
getUserProfile(p, up, userId) ==
  IF up THEN p.redis[userId] ELSE MemRead(p, userId)

\* cacheUserProfile(userId, profileData): JSON in Redis, the object in memory.
cacheUserProfile(p, up, userId, val, kind) ==
  IF up THEN [p EXCEPT !.redis[userId] = val]
  ELSE [p EXCEPT !.mem[userId] = [kind |-> kind, val |-> val]]

\* invalidateUserProfile(userId): del through the safe client only.
invalidateUserProfile(p, up, userId) ==
  IF up THEN [p EXCEPT !.redis[userId] = NoProfile] ELSE p

\* invalidateAllMatches(userId): keys and del through the safe client.
invalidateAllMatches(p, up, userId) ==
  IF up THEN [p EXCEPT !.matches[userId] = {}] ELSE p

\* cacheMatches(userId, page, data): setEx through the safe client only.
cacheMatches(p, up, userId, page) ==
  IF up THEN [p EXCEPT !.matches[userId] = @ \cup {page}] ELSE p

\* getMatches(userId, page): whether the cache answers.
getMatches(p, up, userId, page) == up /\ page \in p.matches[userId]

\* ---------------------------------------------------------------- initial
Init ==
  /\ version \in {1, 2}
  /\ dbConnected \in BOOLEAN
  /\ now = TickMs
  /\ db = <<>>
  /\ nextOid = 1
  /\ inflight = <<>>
  /\ messageStore = [messages |-> <<>>, presence |-> [u \in Users |-> 0]]
  /\ userSockets = [u \in {} |-> {}]
  /\ connected = {}
  /\ socketUserId = [c \in Conns |-> NoUser]
  /\ sendQueue = [u \in Users |-> <<>>]
  /\ timers = <<>>
  /\ pendingLog = [u \in Users |-> <<>>]
  /\ emitted = NoEmits
  /\ res = Response("none", 0, <<>>)
  /\ redisConnected = TRUE
  /\ redis = [online |-> {}, presence |-> [u \in Users |-> NoPresence]]
  /\ memoryStore = [onlineUsers |-> {}, cache |-> [u \in Users |-> NoPresence]]
  /\ activeHeartbeats = {}
  /\ lastHeartbeat = [u \in Users |-> 0]
  /\ lastCacheCall = [u \in Users |-> [op |-> "none", at |-> 0]]
  /\ received = [c \in Conns |-> <<>>]
  /\ lastEvent = [event |-> "none", conn |-> "", user |-> NoUser]
  /\ twin = [presence |-> [u \in Users |-> 0], res |-> Response("none", 0, <<>>)]
  /\ tasks = {}
  /\ profile = [store |-> [u \in Users |-> 0],
                redis |-> [u \in Users |-> NoProfile],
                mem |-> [u \in Users |-> NoEntry],
                matches |-> [u \in Users |-> {}],
                res |-> [user |-> NoUser, val |-> NoProfile, since |-> 0],
                done |-> [u \in Users |-> 0]]

\* The history of pushes follows what the step emitted: the message ids of
\* every 'message' and 'messages' event, per socket, in order.
RECURSIVE PushedIds(_)
PushedIds(evs) ==
  IF evs = <<>> THEN <<>>
  ELSE (IF Head(evs).event \in {"message", "messages"} THEN Head(evs).ids
        ELSE <<>>) \o PushedIds(Tail(evs))

Pushed == received' = [c \in Conns |-> received[c] \o PushedIds(emitted'[c])]

Logged == Pushed /\ UNCHANGED lastEvent

\* The step handles socket event `event` of socket c, whose userId was user.
LoggedEvent(event, c, user) ==
  /\ Pushed
  /\ lastEvent' = [event |-> event, conn |-> c, user |-> user]

\* The step is no socket event and no sweep.
LoggedOther == LoggedEvent("none", "", NoUser)

ReceivedRoom == \A c \in Conns : Len(received[c]) < MaxReceived

MsgCount == Len(db) + Len(inflight) + Len(messageStore.messages)

\* Version 2: a delivery is queued only while at most MaxPending flush
\* timers are still pending.
PendingTimers == Len(timers)
QueueRoom == version = 2 => PendingTimers <= MaxPending

\* ------------------------------------------------------------------ clock
Tick ==
  /\ now' = now + TickMs
  /\ emitted' = NoEmits
  /\ UNCHANGED <<cfgVars, msgVars, sockVars, queueVars, res, cacheVars, histVars>>

\* ------------------------------------------------- message controller
\* A pending setTimeout(() => flushQueue(io, userSockets, uid), 50).  A uid
\* that is a string names the user's entry of sendQueue; a uid that is an
\* ObjectId of a document just loaded is a Map key of its own, whose queue
\* (one entry) is carried here as `queue`.
Timer(uid, fresh, queue) == [uid |-> uid, fresh |-> fresh, queue |-> queue]

\* Socket delivery of a created or unsent message m.  Version 1 emits
\* 'message' to the sockets of `first`, then of `second`; version 2 queues
\* the payload for both users and arms one 50 ms flush timer per push.
\* `fresh` tells the uids read off a loaded document (unsendMessage, durable
\* branch: m.from and m.to) from the uids that are strings.
Deliver(m, first, second, fresh) ==
  IF version = 1
  THEN /\ emitted' = EmitTo(EmitTo(NoEmits, SocketsOf(first),
                                   Event("message", <<m._id>>, "")),
                            SocketsOf(second), Event("message", <<m._id>>, ""))
       /\ UNCHANGED queueVars
  ELSE LET q1 == [sendQueue EXCEPT ![first] = Append(@, m._id)]
           p1 == [pendingLog EXCEPT ![first] = Append(@, m._id)]
       IN /\ sendQueue' = IF fresh THEN sendQueue
                          ELSE [q1 EXCEPT ![second] = Append(@, m._id)]
          /\ timers' = timers \o
               << Timer(first, fresh, IF fresh THEN <<m._id>> ELSE <<>>),
                  Timer(second, fresh, IF fresh THEN <<m._id>> ELSE <<>>) >>
          /\ pendingLog' = [p1 EXCEPT ![second] = Append(@, m._id)]
          /\ emitted' = NoEmits

\* sendMessage, request by `from` with body { to, text }.  On the durable
\* path Message.create stamps createdAt and the insert completes later
\* (SendCommit); the fallback path runs to completion.
SendMessage(from, to, text) ==
  /\ UNCHANGED <<cfgVars, now, sockVars, cacheVars, db, nextOid, histVars>>
  /\ IF to = NoUser \/ text = NoText
     THEN /\ res' = Response("sendMessage", 400, <<>>)
          /\ emitted' = NoEmits
          /\ UNCHANGED <<inflight, messageStore, queueVars>>
     ELSE IF UsesDb
     THEN /\ inflight' = Append(inflight, [from |-> from, to |-> to,
                                           text |-> text, createdAt |-> now])
          /\ emitted' = NoEmits
          /\ UNCHANGED <<res, messageStore, queueVars>>
     ELSE LET r == SendResult(messageStore.messages, messageStore.presence,
                              now, from, to, text, now, now)
          IN /\ messageStore' = [messageStore EXCEPT !.messages = r.msgs]
             /\ res' = r.res
             /\ Deliver(r.out[1], to, from, FALSE)
             /\ UNCHANGED inflight

\* The insert of the i-th pending Message.create lands; the handler then
\* applies its seen updates, delivers and answers.
SendCommit(i) ==
  /\ i \in 1..Len(inflight)
  /\ LET q == inflight[i]
         r == SendResult(db, messageStore.presence, nextOid, q.from, q.to,
                         q.text, q.createdAt, now)
     IN /\ db' = r.msgs
        /\ res' = r.res
        /\ Deliver(r.out[1], q.to, q.from, FALSE)
  /\ nextOid' = nextOid + 1
  /\ inflight' = [j \in 1..(Len(inflight) - 1) |->
                    IF j < i THEN inflight[j] ELSE inflight[j + 1]]
  /\ UNCHANGED <<cfgVars, now, sockVars, cacheVars, messageStore, histVars>>

\* getConversation, request by `viewer` for /:userId = other.
GetConversation(viewer, other) ==
  /\ res' = IF other = NoUser THEN Response("getConversation", 400, <<>>)
            ELSE Response("getConversation", 200, Conversation(viewer, other))
  /\ emitted' = NoEmits
  /\ UNCHANGED <<cfgVars, now, msgVars, sockVars, queueVars, cacheVars,
                 histVars>>

\* markSeen for /:messageId = id; a 'seen' event goes to the sender's sockets.
MarkSeen(id) ==
  LET r == MarkSeenResult(Stored, UsesDb, id)
  IN /\ IF UsesDb THEN db' = r.msgs /\ UNCHANGED messageStore
        ELSE messageStore' = [messageStore EXCEPT !.messages = r.msgs]
                /\ UNCHANGED db
     /\ res' = r.res
     /\ emitted' = IF r.out # <<>>
                   THEN EmitTo(NoEmits, SocketsOf(r.out[1].from),
                               Event("seen", <<id>>, ""))
                   ELSE NoEmits
     /\ UNCHANGED <<cfgVars, now, nextOid, inflight, sockVars, queueVars,
                    cacheVars, histVars>>

\* heartbeat by userId: records the timestamp (see HeartbeatPresence) and
\* broadcasts 'presence'.
Heartbeat(userId) ==
  /\ messageStore' = [messageStore EXCEPT
       !.presence = HeartbeatPresence(@, UsesDb, userId, now)]
  /\ res' = Response("heartbeat", 200, <<>>)
  /\ emitted' = Broadcast(NoEmits, Event("presence", <<>>, userId))
  /\ lastHeartbeat' = [lastHeartbeat EXCEPT ![userId] = now]
  /\ UNCHANGED lastCacheCall
  /\ UNCHANGED <<cfgVars, now, db, nextOid, inflight, sockVars, queueVars,
                 cacheVars>>

\* deleteForMe by userId for /:messageId = id.
DeleteForMe(userId, id) ==
  LET r == DeleteForMeResult(Stored, id, userId)
  IN /\ IF UsesDb THEN db' = r.msgs /\ UNCHANGED messageStore
        ELSE messageStore' = [messageStore EXCEPT !.messages = r.msgs]
                /\ UNCHANGED db
     /\ res' = r.res
     /\ emitted' = NoEmits
     /\ UNCHANGED <<cfgVars, now, nextOid, inflight, sockVars, queueVars,
                    cacheVars, histVars>>

\* unsendMessage by userId for /:messageId = id.
UnsendMessage(userId, id) ==
  LET r == UnsendResult(Stored, UsesDb, id, userId)
  IN /\ IF UsesDb THEN db' = r.msgs /\ UNCHANGED messageStore
        ELSE messageStore' = [messageStore EXCEPT !.messages = r.msgs]
                /\ UNCHANGED db
     /\ res' = r.res
     /\ IF r.res.status = 200
        THEN Deliver(r.out[1], r.out[1].from, r.out[1].to, UsesDb)
        ELSE emitted' = NoEmits /\ UNCHANGED queueVars
     /\ UNCHANGED <<cfgVars, now, nextOid, inflight, sockVars, cacheVars,
                    histVars>>

\* The log without the first occurrence of x, and without the first
\* occurrence of each entry of batch.
RECURSIVE DropFirst(_, _)
DropFirst(log, x) ==
  IF log = <<>> THEN <<>>
  ELSE IF Head(log) = x THEN Tail(log)
  ELSE <<Head(log)>> \o DropFirst(Tail(log), x)

RECURSIVE Flushed(_, _)
Flushed(log, batch) ==
  IF batch = <<>> THEN log
  ELSE Flushed(DropFirst(log, Head(batch)), Tail(batch))

\* const batched = [...queue] of the flush the oldest timer runs, when that
\* timer belongs to userId.
Batched(userId) ==
  IF timers = <<>> \/ Head(timers).uid # userId THEN <<>>
  ELSE IF Head(timers).fresh THEN Head(timers).queue
  ELSE sendQueue[userId]

\* flushQueue(io, userSockets, userId), run by the oldest pending timer:
\* timers of one delay expire in the order they were armed.
FlushQueue(userId) ==
  /\ timers # <<>>
  /\ Head(timers).uid = userId
  /\ timers' = Tail(timers)
  /\ pendingLog' = [pendingLog EXCEPT ![userId] = Flushed(@, Batched(userId))]
  /\ IF Batched(userId) = <<>>
     THEN emitted' = NoEmits /\ UNCHANGED sendQueue
     ELSE /\ sendQueue' = IF Head(timers).fresh THEN sendQueue
                          ELSE [sendQueue EXCEPT ![userId] = <<>>]
          /\ emitted' = EmitTo(NoEmits, SocketsOf(userId),
                               Event("messages", Batched(userId), ""))
  /\ UNCHANGED <<cfgVars, now, msgVars, sockVars, res, cacheVars, histVars>>

\* Message ids a request may name: every stored id and one that is missing.
RequestIds == {Stored[i]._id : i \in 1..Len(Stored)} \cup {NoId}

StoreNext ==
  \/ now < MaxStoreNow * TickMs /\ Tick /\ Logged
  \/ \E u \in Users, to \in Users \cup {NoUser}, x \in Texts \cup {NoText} :
       MsgCount < MaxMsgs /\ QueueRoom /\ SendMessage(u, to, x) /\ Logged
  \/ \E i \in 1..Len(inflight) : QueueRoom /\ SendCommit(i) /\ Logged
  \/ \E u \in Users, o \in Users \cup {NoUser} :
       GetConversation(u, o) /\ Logged
  \/ \E id \in RequestIds : MarkSeen(id) /\ Logged
  \/ \E u \in Users, id \in RequestIds : DeleteForMe(u, id) /\ Logged
  \/ \E u \in Users : FlushQueue(u) /\ Logged

SpecStore == Init /\ [][StoreNext]_vars

\* Concurrent sends and conversation reads.
OrderNext ==
  \/ now < MaxOrderNow * TickMs /\ Tick /\ Logged
  \/ \E u \in Users, to \in Users, x \in Texts :
       MsgCount < MaxOrderMsgs /\ QueueRoom /\ SendMessage(u, to, x) /\ Logged
  \/ \E i \in 1..Len(inflight) : QueueRoom /\ SendCommit(i) /\ Logged
  \/ \E u \in Users, o \in Users : GetConversation(u, o) /\ Logged
  \/ \E u \in Users : FlushQueue(u) /\ Logged

SpecOrder == Init /\ [][OrderNext]_vars

\* Sends and per-viewer deletes within one clock sample.
DeleteNext ==
  \/ \E u \in Users, to \in Users, x \in Texts :
       MsgCount < MaxDeleteMsgs /\ QueueRoom /\ SendMessage(u, to, x) /\ Logged
  \/ \E i \in 1..Len(inflight) : QueueRoom /\ SendCommit(i) /\ Logged
  \/ \E u \in Users, id \in RequestIds : DeleteForMe(u, id) /\ Logged
  \/ \E u \in Users : FlushQueue(u) /\ Logged

SpecDelete == Init /\ [][DeleteNext]_vars

\* Sends and unsends within one clock sample.
UnsendNext ==
  \/ \E u \in Users, to \in Users \cup {NoUser}, x \in Texts \cup {NoText} :
       MsgCount < MaxMsgs /\ QueueRoom /\ SendMessage(u, to, x) /\ Logged
  \/ \E i \in 1..Len(inflight) : QueueRoom /\ SendCommit(i) /\ Logged
  \/ \E u \in Users, id \in RequestIds :
       QueueRoom /\ UnsendMessage(u, id) /\ Logged
  \/ \E id \in RequestIds : MarkSeen(id) /\ Logged
  \/ \E u \in Users : FlushQueue(u) /\ Logged

SpecUnsend == Init /\ [][UnsendNext]_vars

\* Every handler that writes to a stored message, within one clock sample.
MutateNext ==
  \/ \E u \in Users : \E to \in Users \ {u}, x \in Texts :
       MsgCount < MaxMutateMsgs /\ QueueRoom /\ SendMessage(u, to, x) /\ Logged
  \/ \E i \in 1..Len(inflight) : QueueRoom /\ SendCommit(i) /\ Logged
  \/ \E id \in RequestIds : MarkSeen(id) /\ Logged
  \/ \E u \in Users, id \in RequestIds : DeleteForMe(u, id) /\ Logged
  \/ \E u \in Users, id \in RequestIds :
       QueueRoom /\ UnsendMessage(u, id) /\ Logged
  \/ \E u \in Users : FlushQueue(u) /\ Logged

SpecMutate == Init /\ [][MutateNext]_vars

\* Per-viewer deletes next to unsends and conversation reads, within one
\* clock sample.
IndepNext ==
  \/ \E u \in Users : \E to \in Users \ {u}, x \in Texts :
       MsgCount < MaxIndepMsgs /\ QueueRoom /\ SendMessage(u, to, x) /\ Logged
  \/ \E i \in 1..Len(inflight) : QueueRoom /\ SendCommit(i) /\ Logged
  \/ \E u \in Users, o \in Users : GetConversation(u, o) /\ Logged
  \/ \E u \in Users, id \in RequestIds : DeleteForMe(u, id) /\ Logged
  \/ \E u \in Users, id \in RequestIds :
       QueueRoom /\ UnsendMessage(u, id) /\ Logged
  \/ \E u \in Users : FlushQueue(u) /\ Logged

SpecIndep == Init /\ [][IndepNext]_vars

\* Sends and unsends whose deliveries overlap the pending flushes.
BatchRoom == Len(timers) <= MaxBatchPending

BatchNext ==
  \/ \E u \in Users : \E to \in Users \ {u}, x \in Texts :
       MsgCount < MaxBatchMsgs /\ BatchRoom /\ SendMessage(u, to, x) /\ Logged
  \/ \E i \in 1..Len(inflight) : BatchRoom /\ SendCommit(i) /\ Logged
  \/ \E u \in Users, id \in RequestIds :
       BatchRoom /\ UnsendMessage(u, id) /\ Logged
  \/ \E u \in Users : FlushQueue(u) /\ Logged

SpecBatch == Init /\ [][BatchNext]_vars

\* Sends next to heartbeats and the passage of time.
SeenNext ==
  \/ now < MaxNow * TickMs /\ Tick /\ Logged
  \/ \E u \in Users : Heartbeat(u) /\ Logged
  \/ \E u \in Users, to \in Users \cup {NoUser}, x \in Texts \cup {NoText} :
       MsgCount < MaxSeenMsgs /\ QueueRoom /\ SendMessage(u, to, x) /\ Logged
  \/ \E i \in 1..Len(inflight) : QueueRoom /\ SendCommit(i) /\ Logged
  \/ \E u \in Users : FlushQueue(u) /\ Logged

SpecSeen == Init /\ [][SeenNext]_vars

\* ------------------------------------------------------ socket handlers
\* PresenceService.handleUserConnect: setUserOnline, startHeartbeat, then the
\* 'userOnline' and 'onlineUsersList' broadcasts.
\* PresenceService.handleUserDisconnect: stopHeartbeat, setUserOffline, then
\* the 'userOffline' and 'onlineUsersList' broadcasts.

\* io.on("connection"): a new socket with no userId.
Connect(c) ==
  /\ c \notin connected
  /\ connected' = connected \cup {c}
  /\ socketUserId' = [socketUserId EXCEPT ![c] = NoUser]
  /\ emitted' = NoEmits
  /\ UNCHANGED <<cfgVars, now, msgVars, userSockets, queueVars, res, cacheVars,
                 histVars>>

\* userSockets after set.add(socket.id); userSockets.set(userId, set).
RegistryAdd(reg, userId, c) ==
  [u \in DOMAIN reg \cup {userId} |->
     IF u = userId
     THEN (IF u \in DOMAIN reg THEN reg[u] ELSE {}) \cup {c}
     ELSE reg[u]]

\* A disconnect scan without userSockets.delete(userId).
RegistryRemoveKeepKey(reg, c) == [u \in DOMAIN reg |-> reg[u] \ {c}]

\* A disconnect scan that empties the registry.
RegistryClear(reg, c) == [u \in {} |-> {}]

\* userSockets after the disconnect scan: the socket id leaves every set and
\* emptied sets lose their key.
RegistryRemove(reg, c) ==
  [u \in {v \in DOMAIN reg : reg[v] \ {c} # {}} |-> reg[u] \ {c}]

\* socket.on("identify", userId).
Identify(c, userId) ==
  /\ c \in connected
  /\ IF userId = NoUser
     THEN /\ emitted' = NoEmits
          /\ UNCHANGED <<sockVars, cacheVars, lastCacheCall>>
     ELSE LET cs == setUserOnline(CacheState, redisConnected, userId, c, now)
          IN /\ userSockets' = RegistryAdd(userSockets, userId, c)
             /\ socketUserId' = [socketUserId EXCEPT ![c] = userId]
             /\ redis' = cs.redis
             /\ memoryStore' = cs.mem
             /\ activeHeartbeats' = activeHeartbeats \cup {userId}
             /\ lastCacheCall' = Called(userId, "online")
             /\ emitted' = Broadcast(Broadcast(NoEmits,
                                Event("userOnline", <<>>, userId)),
                                Event("onlineUsersList", <<>>, ""))
             /\ UNCHANGED <<connected, redisConnected>>
  /\ UNCHANGED <<cfgVars, now, msgVars, queueVars, res, lastHeartbeat>>

\* socket.on("disconnect"); the socket object goes away with its userId.
Disconnect(c) ==
  /\ c \in connected
  /\ connected' = connected \ {c}
  /\ socketUserId' = [socketUserId EXCEPT ![c] = NoUser]
  /\ userSockets' = RegistryRemove(userSockets, c)
  /\ IF socketUserId[c] = NoUser
     THEN /\ emitted' = NoEmits
          /\ UNCHANGED <<cacheVars, lastCacheCall>>
     ELSE LET cs == setUserOffline(CacheState, redisConnected,
                                   socketUserId[c], now)
          IN /\ activeHeartbeats' = activeHeartbeats \ {socketUserId[c]}
             /\ lastCacheCall' = Called(socketUserId[c], "offline")
             /\ redis' = cs.redis
             /\ memoryStore' = cs.mem
             /\ emitted' = EmitTo(EmitTo(NoEmits, connected \ {c},
                                Event("userOffline", <<>>, socketUserId[c])),
                                connected \ {c},
                                Event("onlineUsersList", <<>>, ""))
             /\ UNCHANGED redisConnected
  /\ UNCHANGED <<cfgVars, now, msgVars, queueVars, res, lastHeartbeat>>

\* socket.on("typing", { toUserId, isTyping }): handleTyping for an
\* identified socket, which emits 'userTyping' with io.emit.
Typing(c, toUserId) ==
  /\ c \in connected
  /\ emitted' = IF socketUserId[c] = NoUser THEN NoEmits
                ELSE Broadcast(NoEmits,
                               Event("userTyping", <<>>, socketUserId[c]))
  /\ UNCHANGED <<cfgVars, now, msgVars, sockVars, queueVars, res, cacheVars,
                 histVars>>

\* ---------------------------------------------- older server (part_012)
\* socket.on("identify", userId) of the older server: socket.userId, the
\* registry entry and a 'presence' broadcast.
OldIdentify(c, userId) ==
  /\ c \in connected
  /\ IF userId = NoUser
     THEN /\ emitted' = NoEmits
          /\ UNCHANGED sockVars
     ELSE /\ socketUserId' = [socketUserId EXCEPT ![c] = userId]
          /\ userSockets' = RegistryAdd(userSockets, userId, c)
          /\ emitted' = Broadcast(NoEmits, Event("presence", <<>>, userId))
          /\ UNCHANGED connected
  /\ UNCHANGED <<cfgVars, now, msgVars, queueVars, res, cacheVars, histVars>>

\* userSockets after the older disconnect: the socket id leaves the set of
\* socket.userId only, and that set loses its key when emptied.
OldRegistryRemove(reg, userId, c) ==
  IF userId \notin DOMAIN reg THEN reg
  ELSE [u \in {v \in DOMAIN reg : v # userId \/ reg[v] \ {c} # {}} |->
          IF u = userId THEN reg[u] \ {c} ELSE reg[u]]

\* socket.on("disconnect") of the older server; 'presence' with online:
\* false is written as the event 'presenceOffline'.
OldDisconnect(c) ==
  /\ c \in connected
  /\ connected' = connected \ {c}
  /\ socketUserId' = [socketUserId EXCEPT ![c] = NoUser]
  /\ userSockets' = OldRegistryRemove(userSockets, socketUserId[c], c)
  /\ emitted' = IF /\ socketUserId[c] \in DOMAIN userSockets
                   /\ userSockets[socketUserId[c]] \ {c} = {}
                THEN EmitTo(NoEmits, connected \ {c},
                            Event("presenceOffline", <<>>, socketUserId[c]))
                ELSE NoEmits
  /\ UNCHANGED <<cfgVars, now, msgVars, queueVars, res, cacheVars, histVars>>

OldServerNext ==
  \/ \E c \in Conns : Connect(c) /\ LoggedEvent("connection", c, NoUser)
  \/ \E c \in Conns, u \in Users \cup {NoUser} :
       OldIdentify(c, u) /\ LoggedEvent("identify", c, u)
  \/ \E c \in Conns :
       OldDisconnect(c) /\ LoggedEvent("disconnect", c, socketUserId[c])

SpecOldServer == Init /\ [][OldServerNext]_vars

\* The message controller next to the older server's socket handlers.
OldPushNext ==
  \/ \E c \in Conns : Connect(c) /\ LoggedEvent("connection", c, NoUser)
  \/ \E c \in Conns, u \in Users :
       OldIdentify(c, u) /\ LoggedEvent("identify", c, u)
  \/ \E c \in Conns :
       OldDisconnect(c) /\ LoggedEvent("disconnect", c, socketUserId[c])
  \/ \E u \in Users, to \in Users, x \in Texts :
       MsgCount < MaxOldPushMsgs /\ QueueRoom /\ SendMessage(u, to, x) /\ Logged
  \/ \E i \in 1..Len(inflight) : QueueRoom /\ SendCommit(i) /\ Logged
  \/ \E u \in Users : FlushQueue(u) /\ Logged

SpecOldPush == Init /\ [][OldPushNext]_vars

\* Sends and unsends next to live sockets.
PushNext ==
  \/ \E c \in Conns : Connect(c) /\ Logged
  \/ \E c \in Conns, u \in Users \cup {NoUser} : Identify(c, u) /\ Logged
  \/ \E c \in Conns : Disconnect(c) /\ Logged
  \/ \E u \in Users, to \in Users, x \in Texts :
       MsgCount < MaxPushMsgs /\ QueueRoom /\ SendMessage(u, to, x) /\ Logged
  \/ \E i \in 1..Len(inflight) : QueueRoom /\ SendCommit(i) /\ Logged
  \/ \E u \in Users, id \in RequestIds :
       QueueRoom /\ ReceivedRoom /\ UnsendMessage(u, id) /\ Logged
  \/ \E u \in Users : FlushQueue(u) /\ Logged

SpecPush == Init /\ [][PushNext]_vars

\* Sends between distinct users and read receipts next to sockets that stay
\* connected, within one clock sample.
NotifyNext ==
  \/ \E c \in Conns : Connect(c) /\ Logged
  \/ \E c \in Conns, u \in Users : Identify(c, u) /\ Logged
  \/ \E u \in Users : \E to \in Users \ {u}, x \in Texts :
       MsgCount < MaxNotifyMsgs /\ QueueRoom /\ SendMessage(u, to, x) /\ Logged
  \/ \E i \in 1..Len(inflight) : QueueRoom /\ SendCommit(i) /\ Logged
  \/ \E id \in RequestIds : MarkSeen(id) /\ Logged
  \/ \E u \in Users : FlushQueue(u) /\ Logged

SpecNotify == Init /\ [][NotifyNext]_vars

\* ------------------------------------------------------- lockstep run
\* The same request handled once by the durable branch (on db, with the
\* presence and response kept in twin) and once by the fallback branch (on
\* messageStore, answering in res).  A request names a message by its
\* position k in the store; each branch is given its own id for it.  No
\* socket is connected in this run.
IdAt(msgs, k) == IF k \in 1..Len(msgs) THEN msgs[k]._id ELSE NoId

EqFrame ==
  /\ emitted' = NoEmits
  /\ UNCHANGED <<version, dbConnected, tasks, profile, now, inflight, sockVars,
                 queueVars, cacheVars, histVars>>

EqApply(d, m) ==
  /\ db' = d.msgs
  /\ twin' = [twin EXCEPT !.res = d.res]
  /\ messageStore' = [messageStore EXCEPT !.messages = m.msgs]
  /\ res' = m.res
  /\ EqFrame

EqSendMessage(from, to, text) ==
  IF to = NoUser \/ text = NoText
  THEN /\ twin' = [twin EXCEPT !.res = Response("sendMessage", 400, <<>>)]
       /\ res' = Response("sendMessage", 400, <<>>)
       /\ UNCHANGED <<db, nextOid, messageStore>>
       /\ EqFrame
  ELSE /\ EqApply(SendResult(db, twin.presence, nextOid, from, to, text,
                             now, now),
                  SendResult(messageStore.messages, messageStore.presence,
                             now, from, to, text, now, now))
       /\ nextOid' = nextOid + 1

EqGetConversation(viewer, other) ==
  /\ twin' = [twin EXCEPT !.res =
       IF other = NoUser THEN Response("getConversation", 400, <<>>)
       ELSE Response("getConversation", 200, ConversationDb(db, viewer, other))]
  /\ res' =
       IF other = NoUser THEN Response("getConversation", 400, <<>>)
       ELSE Response("getConversation", 200,
                     ConversationMem(messageStore.messages, viewer, other))
  /\ UNCHANGED <<db, nextOid, messageStore>>
  /\ EqFrame

EqMarkSeen(k) ==
  /\ EqApply(MarkSeenResult(db, TRUE, IdAt(db, k)),
             MarkSeenResult(messageStore.messages, FALSE,
                            IdAt(messageStore.messages, k)))
  /\ UNCHANGED nextOid

EqDeleteForMe(userId, k) ==
  /\ EqApply(DeleteForMeResult(db, IdAt(db, k), userId),
             DeleteForMeResult(messageStore.messages,
                               IdAt(messageStore.messages, k), userId))
  /\ UNCHANGED nextOid

EqUnsendMessage(userId, k) ==
  /\ EqApply(UnsendResult(db, TRUE, IdAt(db, k), userId),
             UnsendResult(messageStore.messages, FALSE,
                          IdAt(messageStore.messages, k), userId))
  /\ UNCHANGED nextOid

EqHeartbeat(userId) ==
  /\ twin' = [presence |-> HeartbeatPresence(twin.presence, TRUE, userId, now),
              res |-> Response("heartbeat", 200, <<>>)]
  /\ messageStore' = [messageStore EXCEPT
       !.presence = HeartbeatPresence(@, FALSE, userId, now)]
  /\ res' = Response("heartbeat", 200, <<>>)
  /\ UNCHANGED <<db, nextOid>>
  /\ EqFrame

EquivNext ==
  \/ now < MaxEquivNow * TickMs /\ Tick /\ Logged
  \/ \E u \in Users, to \in Users \cup {NoUser}, x \in Texts \cup {NoText} :
       Len(db) < MaxEquivMsgs /\ EqSendMessage(u, to, x) /\ Logged
  \/ \E u \in Users, o \in Users \cup {NoUser} :
       EqGetConversation(u, o) /\ Logged
  \/ \E k \in 0..MaxEquivMsgs : EqMarkSeen(k) /\ Logged
  \/ \E u \in Users, k \in 0..MaxEquivMsgs : EqDeleteForMe(u, k) /\ Logged
  \/ \E u \in Users, k \in 0..MaxEquivMsgs : EqUnsendMessage(u, k) /\ Logged
  \/ \E u \in Users : EqHeartbeat(u) /\ Logged

SpecEquiv == Init /\ [][EquivNext]_vars

\* --------------------------------------------------- cache service calls
\* What a CacheService call leaves alone.
CacheFrame ==
  /\ emitted' = NoEmits
  /\ UNCHANGED <<cfgVars, now, msgVars, sockVars, queueVars, res,
                 activeHeartbeats, lastHeartbeat>>

\* cacheService.setUserOnline(userId, socketId).
CacheSetUserOnline(userId, sid) ==
  LET cs == setUserOnline(CacheState, redisConnected, userId, sid, now)
  IN /\ redis' = cs.redis
     /\ memoryStore' = cs.mem
     /\ lastCacheCall' = Called(userId, "online")
     /\ UNCHANGED redisConnected
     /\ CacheFrame

\* cacheService.setUserOffline(userId).
CacheSetUserOffline(userId) ==
  LET cs == setUserOffline(CacheState, redisConnected, userId, now)
  IN /\ redis' = cs.redis
     /\ memoryStore' = cs.mem
     /\ lastCacheCall' = Called(userId, "offline")
     /\ UNCHANGED redisConnected
     /\ CacheFrame

\* The Redis client's 'error' / 'end' events: isRedisConnected = false.
RedisError ==
  /\ redisConnected
  /\ redisConnected' = FALSE
  /\ UNCHANGED <<redis, memoryStore, lastCacheCall>>
  /\ CacheFrame

\* The Redis client's 'ready' event: isRedisConnected = true.
RedisReady ==
  /\ ~redisConnected
  /\ redisConnected' = TRUE
  /\ UNCHANGED <<redis, memoryStore, lastCacheCall>>
  /\ CacheFrame

CacheNext ==
  \/ now < MaxNow * TickMs /\ Tick /\ Logged
  \/ \E u \in Users, c \in Conns : CacheSetUserOnline(u, c) /\ Logged
  \/ \E u \in Users : CacheSetUserOffline(u) /\ Logged
  \/ RedisError /\ Logged
  \/ RedisReady /\ Logged

SpecCache == Init /\ [][CacheNext]_vars

\* ------------------------------------------- socket handlers, step by step
\* The handlers of server.js are async: each runs to its first await and is
\* resumed when the awaited Redis command has answered.  Commands of one
\* client are served in the order they were issued, so a command takes
\* effect in the step that issues it.  A suspended handler is a task: its
\* kind, socket, userId, position, whether setUserOnline took the Redis
\* branch, and the socketId it carries.
Task(kind, c, userId, pc, viaRedis, sid) ==
  [kind |-> kind, conn |-> c, user |-> userId, pc |-> pc,
   viaRedis |-> viaRedis, sid |-> sid]

\* safeRedisClient.sAdd / sRem / setEx: no-ops while Redis is not connected.
SAddOnline(r, up, userId) ==
  IF up THEN [r EXCEPT !.online = @ \cup {userId}] ELSE r

SRemOnline(r, up, userId) ==
  IF up THEN [r EXCEPT !.online = @ \ {userId}] ELSE r

SetExPresence(r, up, userId, sid, status, t) ==
  IF up THEN [r EXCEPT !.presence[userId] = PresenceData(userId, sid, status, t)]
  ELSE r

\* What the task steps leave alone.
TaskFrame ==
  UNCHANGED <<version, dbConnected, twin, profile, now, msgVars, queueVars,
              res, redisConnected, lastHeartbeat>>

\* setUserOnline(userId, sid) up to its first await: sAdd is issued on the
\* Redis branch; the memory branch writes both entries and has no await.
BeginSetUserOnline(userId, sid) ==
  /\ redis' = SAddOnline(redis, redisConnected, userId)
  /\ memoryStore' = setUserOnline(CacheState, redisConnected, userId, sid, now).mem
  /\ lastCacheCall' = Called(userId, "online")

\* socket.on("identify", userId) up to `await handleUserConnect`: the
\* registry, socket.userId and the first command of setUserOnline.
IdentifyStart(c, userId) ==
  /\ c \in connected
  /\ userId # NoUser
  /\ Cardinality(tasks) < MaxTasks
  /\ Task("identify", c, userId, IF redisConnected THEN 1 ELSE 2,
          redisConnected, c) \notin tasks
  /\ userSockets' = RegistryAdd(userSockets, userId, c)
  /\ socketUserId' = [socketUserId EXCEPT ![c] = userId]
  /\ BeginSetUserOnline(userId, c)
  /\ tasks' = tasks \cup {Task("identify", c, userId,
                                IF redisConnected THEN 1 ELSE 2,
                                redisConnected, c)}
  /\ emitted' = NoEmits
  /\ UNCHANGED <<connected, activeHeartbeats>>
  /\ TaskFrame

\* setUserOnline after sAdd answered: setEx of the presence record.
SetOnlineResume(t) ==
  /\ t \in tasks
  /\ t.kind \in {"identify", "activity"}
  /\ t.pc = 1
  /\ redis' = SetExPresence(redis, redisConnected, t.user, t.sid, "online", now)
  /\ tasks' = (tasks \ {t}) \cup {[t EXCEPT !.pc = 2]}
  /\ emitted' = NoEmits
  /\ UNCHANGED <<sockVars, memoryStore, activeHeartbeats, lastCacheCall>>
  /\ TaskFrame

\* handleUserConnect after setUserOnline returned: startHeartbeat, then the
\* 'userOnline' and 'onlineUsersList' broadcasts.
IdentifyFinish(t) ==
  /\ t \in tasks
  /\ t.kind = "identify"
  /\ t.pc = 2
  /\ activeHeartbeats' = activeHeartbeats \cup {t.user}
  /\ emitted' = Broadcast(Broadcast(NoEmits, Event("userOnline", <<>>, t.user)),
                          Event("onlineUsersList", <<>>, ""))
  /\ tasks' = tasks \ {t}
  /\ UNCHANGED <<sockVars, redis, memoryStore, lastCacheCall>>
  /\ TaskFrame

\* socket.on("disconnect") up to its first await: the registry scan, then
\* handleUserDisconnect with stopHeartbeat and the sRem of setUserOffline.
DisconnectStart(c) ==
  /\ c \in connected
  /\ Cardinality(tasks) < MaxTasks
  /\ connected' = connected \ {c}
  /\ socketUserId' = [socketUserId EXCEPT ![c] = NoUser]
  /\ userSockets' = RegistryRemove(userSockets, c)
  /\ emitted' = NoEmits
  /\ IF socketUserId[c] = NoUser
     THEN UNCHANGED <<redis, activeHeartbeats, lastCacheCall, tasks>>
     ELSE /\ activeHeartbeats' = activeHeartbeats \ {socketUserId[c]}
          /\ redis' = SRemOnline(redis, redisConnected, socketUserId[c])
          /\ lastCacheCall' = Called(socketUserId[c], "offline")
          /\ tasks' = tasks \cup {Task("disconnect", c, socketUserId[c], 1,
                                        redisConnected, "")}
  /\ UNCHANGED memoryStore
  /\ TaskFrame

\* setUserOffline after sRem answered: setEx of the offline record.
DisconnectResume(t) ==
  /\ t \in tasks
  /\ t.kind = "disconnect"
  /\ t.pc = 1
  /\ redis' = SetExPresence(redis, redisConnected, t.user, "", "offline", now)
  /\ tasks' = (tasks \ {t}) \cup {[t EXCEPT !.pc = 2]}
  /\ emitted' = NoEmits
  /\ UNCHANGED <<sockVars, memoryStore, activeHeartbeats, lastCacheCall>>
  /\ TaskFrame

\* handleUserDisconnect after setUserOffline returned: the 'userOffline' and
\* 'onlineUsersList' broadcasts.
DisconnectFinish(t) ==
  /\ t \in tasks
  /\ t.kind = "disconnect"
  /\ t.pc = 2
  /\ emitted' = Broadcast(Broadcast(NoEmits, Event("userOffline", <<>>, t.user)),
                          Event("onlineUsersList", <<>>, ""))
  /\ tasks' = tasks \ {t}
  /\ UNCHANGED <<sockVars, redis, memoryStore, activeHeartbeats, lastCacheCall>>
  /\ TaskFrame

\* socket.on("activity") up to `await getUserPresence`: the GET is issued
\* and answers with the record of this moment.  The handler ends at once for
\* a socket without userId, and after the answer when there is no record.
ActivityStart(c) ==
  /\ c \in connected
  /\ Cardinality(tasks) < MaxTasks
  /\ LET u == socketUserId[c]
         presence == IF u = NoUser THEN NoPresence
                     ELSE getUserPresence(CacheState, redisConnected, u, now)
         t == Task("activity", c, u, 0, FALSE, presence.socketId)
     IN /\ t \notin tasks
        /\ tasks' = IF u = NoUser \/ presence = NoPresence THEN tasks
                    ELSE tasks \cup {t}
  /\ emitted' = NoEmits
  /\ UNCHANGED <<sockVars, redis, memoryStore, activeHeartbeats, lastCacheCall>>
  /\ TaskFrame

\* handleUserActivity after the GET answered with a record: it calls
\* setUserOnline(userId, presence.socketId), which runs to its first await.
ActivityResume(t) ==
  /\ t \in tasks
  /\ t.kind = "activity"
  /\ t.pc = 0
  /\ BeginSetUserOnline(t.user, t.sid)
  /\ tasks' = (tasks \ {t}) \cup
               {[t EXCEPT !.pc = IF redisConnected THEN 1 ELSE 2,
                          !.viaRedis = redisConnected]}
  /\ emitted' = NoEmits
  /\ UNCHANGED <<sockVars, activeHeartbeats>>
  /\ TaskFrame

\* handleUserActivity after setUserOnline returned: the 'userActivity'
\* broadcast.
ActivityFinish(t) ==
  /\ t \in tasks
  /\ t.kind = "activity"
  /\ t.pc = 2
  /\ emitted' = Broadcast(NoEmits, Event("userActivity", <<>>, t.user))
  /\ tasks' = tasks \ {t}
  /\ UNCHANGED <<sockVars, redis, memoryStore, activeHeartbeats, lastCacheCall>>
  /\ TaskFrame

\* The setInterval callback of startHeartbeat: setUserOnline(userId) for a
\* user whose timer is active; the socketId argument is left out.
HeartbeatInterval(userId) ==
  /\ userId \in activeHeartbeats
  /\ CacheSetUserOnline(userId, "")

\* Sockets connect, identify, report activity and disconnect while Redis
\* stays connected; every handler may be resumed whenever its awaited call
\* has answered, and the heartbeat interval of a user may fire at any time.
AsyncNext ==
  \/ \E c \in Conns : Connect(c) /\ Logged
  \/ \E c \in Conns, u \in Users : IdentifyStart(c, u) /\ Logged
  \/ \E t \in tasks : SetOnlineResume(t) /\ Logged
  \/ \E t \in tasks : IdentifyFinish(t) /\ Logged
  \/ \E c \in Conns : DisconnectStart(c) /\ Logged
  \/ \E t \in tasks : DisconnectResume(t) /\ Logged
  \/ \E t \in tasks : DisconnectFinish(t) /\ Logged
  \/ \E c \in Conns : ActivityStart(c) /\ Logged
  \/ \E t \in tasks : ActivityResume(t) /\ Logged
  \/ \E t \in tasks : ActivityFinish(t) /\ Logged
  \/ \E u \in Users : HeartbeatInterval(u) /\ Logged

\* The socket handlers do not read the controller build or the storage
\* path, so one configuration is followed.
AsyncInit == Init /\ version = 2 /\ dbConnected

SpecAsync == AsyncInit /\ [][AsyncNext]_vars

\* ------------------------------------------- profile requests, step by step
\* A suspended profile request: its handler, user, position, the value it
\* carries, and the last edit of the user that had completed when it started.
Request(kind, userId, pc, val, since) ==
  [kind |-> kind, user |-> userId, pc |-> pc, val |-> val, since |-> since]

\* res.json(profile) of a getProfile request.
Respond(p, userId, val, since) ==
  [p EXCEPT !.res = [user |-> userId, val |-> val, since |-> since]]

\* What the profile requests leave alone.
ProfileFrame ==
  /\ emitted' = NoEmits
  /\ UNCHANGED <<version, dbConnected, twin, now, msgVars, sockVars, queueVars,
                 res, cacheVars, histVars>>

\* getProfile after the cache answered: a hit is the response; on a miss
\* the durable path issues User.findById and suspends, and the fallback path
\* reads devStore, caches the user and responds.
AfterCache(userId, cached, since) ==
  IF cached # NoProfile
  THEN [profile |-> Respond(profile, userId, cached, since), new |-> {}]
  ELSE IF UsesDb
  THEN [profile |-> profile,
        new |-> {Request("getProfile", userId, 2, profile.store[userId], since)}]
  ELSE [profile |-> Respond(cacheUserProfile(profile, redisConnected, userId,
                                             profile.store[userId], "ref"),
                            userId, profile.store[userId], since),
        new |-> {}]

\* GET /api/profile up to its first suspension: the Redis GET is issued and
\* awaited; the memory lookup answers at once.
GetProfileStart(userId) ==
  /\ LET cached == getUserProfile(profile, redisConnected, userId)
         since == profile.done[userId]
         r == AfterCache(userId, cached, since)
     IN IF redisConnected
        THEN /\ Request("getProfile", userId, 1, cached, since) \notin tasks
             /\ tasks' = tasks \cup {Request("getProfile", userId, 1, cached, since)}
             /\ UNCHANGED profile
        ELSE /\ r.new \cap tasks = {}
             /\ tasks' = tasks \cup r.new
             /\ profile' = r.profile
  /\ ProfileFrame

\* getProfile resumed with the answer of the Redis GET.
GetProfileCached(t) ==
  /\ t \in tasks
  /\ t.kind = "getProfile"
  /\ t.pc = 1
  /\ LET r == AfterCache(t.user, t.val, t.since)
     IN /\ r.new \cap tasks = {}
        /\ tasks' = (tasks \ {t}) \cup r.new
        /\ profile' = r.profile
  /\ ProfileFrame

\* getProfile resumed with the document of User.findById: cacheUserProfile,
\* then the response.
GetProfileFound(t) ==
  /\ t \in tasks
  /\ t.kind = "getProfile"
  /\ t.pc = 2
  /\ profile' = Respond(cacheUserProfile(profile, redisConnected, t.user,
                                         t.val, "copy"),
                        t.user, t.val, t.since)
  /\ tasks' = tasks \ {t}
  /\ ProfileFrame

\* updateProfile from cacheUserProfile on: the durable path caches the
\* document findByIdAndUpdate returned, the fallback path the devStore user;
\* then the response.
UpdateCache(p, t) ==
  [cacheUserProfile(p, redisConnected, t.user,
                    IF UsesDb THEN t.val ELSE p.store[t.user],
                    IF UsesDb THEN "copy" ELSE "ref")
   EXCEPT !.done[t.user] = t.val]

\* PUT /api/profile up to its first suspension.  Durable path: the update
\* is issued.  Fallback path: devStore is written and invalidateUserProfile
\* called; without Redis nothing is awaited and the request runs to its end.
UpdateProfileStart(userId) ==
  /\ profile.store[userId] < MaxEdits
  /\ LET val == profile.store[userId] + 1
         stored == [profile EXCEPT !.store[userId] = val]
         t == Request("updateProfile", userId, IF UsesDb THEN 1 ELSE 3, val, 0)
     IN IF UsesDb \/ redisConnected
        THEN /\ profile' = invalidateUserProfile(stored,
                              ~UsesDb /\ redisConnected, userId)
             /\ tasks' = tasks \cup {t}
        ELSE /\ profile' = UpdateCache(stored, t)
             /\ UNCHANGED tasks
  /\ ProfileFrame

\* updateProfile resumed with the updated document: invalidateUserProfile.
\* Without Redis the safe client answers at once, invalidateAllMatches finds
\* no keys, and the request runs to its end.
UpdateProfileInvalidate(t) ==
  /\ t \in tasks
  /\ t.kind = "updateProfile"
  /\ t.pc = 1
  /\ IF redisConnected
     THEN /\ profile' = invalidateUserProfile(profile, TRUE, t.user)
          /\ tasks' = (tasks \ {t}) \cup {[t EXCEPT !.pc = 2]}
     ELSE /\ profile' = UpdateCache(profile, t)
          /\ tasks' = tasks \ {t}
  /\ ProfileFrame

\* updateProfile resumed after the del: invalidateAllMatches, whose keys and
\* del are taken as one command.
UpdateProfileMatches(t) ==
  /\ t \in tasks
  /\ t.kind = "updateProfile"
  /\ t.pc = 2
  /\ IF redisConnected
     THEN /\ profile' = invalidateAllMatches(profile, TRUE, t.user)
          /\ tasks' = (tasks \ {t}) \cup {[t EXCEPT !.pc = 3]}
     ELSE /\ profile' = UpdateCache(profile, t)
          /\ tasks' = tasks \ {t}
  /\ ProfileFrame

\* updateProfile resumed after the invalidation: cacheUserProfile and the
\* response.
UpdateProfileFinish(t) ==
  /\ t \in tasks
  /\ t.kind = "updateProfile"
  /\ t.pc = 3
  /\ profile' = UpdateCache(profile, t)
  /\ tasks' = tasks \ {t}
  /\ ProfileFrame

\* GET /api/profile/matches?page=: a cached page is the response, else the
\* page is computed and cached.
GetMatches(userId, page) ==
  /\ profile' = IF getMatches(profile, redisConnected, userId, page)
                THEN profile
                ELSE cacheMatches(profile, redisConnected, userId, page)
  /\ UNCHANGED tasks
  /\ ProfileFrame

UpdatePending(userId) ==
  \E t \in tasks : t.kind = "updateProfile" /\ t.user = userId

\* Profile requests one at a time, while Redis comes and goes.
ProfileNext ==
  \/ \E u \in Users : tasks = {} /\ GetProfileStart(u) /\ Logged
  \/ \E t \in tasks : GetProfileCached(t) /\ Logged
  \/ \E t \in tasks : GetProfileFound(t) /\ Logged
  \/ \E u \in Users : tasks = {} /\ UpdateProfileStart(u) /\ Logged
  \/ \E t \in tasks : UpdateProfileInvalidate(t) /\ Logged
  \/ \E t \in tasks : UpdateProfileMatches(t) /\ Logged
  \/ \E t \in tasks : UpdateProfileFinish(t) /\ Logged
  \/ \E u \in Users, page \in Pages : tasks = {} /\ GetMatches(u, page) /\ Logged
  \/ RedisError /\ Logged
  \/ RedisReady /\ Logged

SpecProfile == Init /\ [][ProfileNext]_vars

\* Concurrent getProfile and updateProfile requests while Redis stays
\* connected.
ProfileRaceNext ==
  \/ \E u \in Users :
        Cardinality(tasks) < MaxRequests /\ GetProfileStart(u) /\ Logged
  \/ \E t \in tasks : GetProfileCached(t) /\ Logged
  \/ \E t \in tasks : GetProfileFound(t) /\ Logged
  \/ \E u \in Users :
        /\ Cardinality(tasks) < MaxRequests
        /\ ~UpdatePending(u)
        /\ UpdateProfileStart(u) /\ Logged
  \/ \E t \in tasks : UpdateProfileInvalidate(t) /\ Logged
  \/ \E t \in tasks : UpdateProfileMatches(t) /\ Logged
  \/ \E t \in tasks : UpdateProfileFinish(t) /\ Logged

SpecProfileRace == Init /\ [][ProfileRaceNext]_vars

\* presenceService.cleanupInactiveUsers(), one run of the periodic sweep.
CleanupInactiveUsers ==
  LET us == Inactive(CacheState, redisConnected, now)
      cs == SweepOffline(CacheState, redisConnected, us, now)
  IN /\ redis' = cs.redis
     /\ memoryStore' = cs.mem
     /\ activeHeartbeats' = activeHeartbeats \ us
     /\ lastCacheCall' = [u \in Users |->
                            IF u \in us THEN [op |-> "offline", at |-> now]
                            ELSE lastCacheCall[u]]
     /\ emitted' = SweepEmits(NoEmits, us)
     /\ UNCHANGED <<cfgVars, now, msgVars, sockVars, queueVars, res,
                    redisConnected, lastHeartbeat>>

SweepNext ==
  \/ now < MaxSweepNow * TickMs /\ Tick /\ LoggedOther
  \/ \E c \in Conns : Connect(c) /\ LoggedOther
  \/ \E u \in Users : CacheSetUserOnline(u, "s1") /\ LoggedOther
  \/ \E u \in Users : CacheSetUserOffline(u) /\ LoggedOther
  \/ RedisError /\ LoggedOther
  \/ RedisReady /\ LoggedOther
  \/ CleanupInactiveUsers /\ LoggedEvent("cleanup", "", NoUser)

SpecSweep == Init /\ [][SweepNext]_vars

\* The socket handlers and the presence service on their own.
SocketNext ==
  \/ \E c \in Conns : Connect(c) /\ LoggedEvent("connection", c, NoUser)
  \/ \E c \in Conns, u \in Users \cup {NoUser} :
       Identify(c, u) /\ LoggedEvent("identify", c, u)
  \/ \E c \in Conns :
       Disconnect(c) /\ LoggedEvent("disconnect", c, socketUserId[c])
  \/ \E c \in Conns, t \in Users :
       Typing(c, t) /\ LoggedEvent("typing", c, socketUserId[c])
  \/ RedisError /\ Logged
  \/ RedisReady /\ Logged

SpecSocket == Init /\ [][SocketNext]_vars

\* ------------------------------------------------------------------ claims
LastStored == Stored[Len(Stored)]

\* A sendMessage completes in this step: the store gains its message.
SendCompletes == Len(Stored') = Len(Stored) + 1

\* C1: in both builds and on both storage paths, a message a user sends to
\* themselves is stored with seen = true and returned with seen = true.
C1_SelfSendSeen ==
  /\ \A i \in 1..Len(Stored) : Stored[i].from = Stored[i].to => Stored[i].seen
  /\ (res.op = "sendMessage" /\ res.status = 200
        /\ LastStored.from = LastStored.to) => res.seen

C1_Witness ==
  /\ res.op = "sendMessage" /\ res.status = 200
  /\ Len(Stored) >= 1
  /\ LastStored.from = "alice" /\ LastStored.to = "alice"
  /\ UsesDb /\ version = 2

\* C2: for distinct sender and recipient, the message a completed
\* sendMessage creates has seen = true if the recipient's last heartbeat is
\* within PRESENCE_TTL_MS at that moment, and seen = false otherwise.
C2_OnlineSeen ==
  [][SendCompletes =>
       LET m == Stored'[Len(Stored')]
       IN m.from # m.to =>
            (m.seen <=> (/\ lastHeartbeat[m.to] # 0
                         /\ now - lastHeartbeat[m.to] <= PRESENCE_TTL_MS))]_vars

\* C3: unsendMessage on a stored message by anyone but its sender answers
\* 403, leaves the store unchanged and pushes or queues nothing.
C3_ForbiddenUnsend ==
  [][\A u \in Users, i \in 1..Len(Stored) :
       (Stored[i].from # u /\ UnsendMessage(u, Stored[i]._id)) =>
         /\ res'.op = "unsendMessage" /\ res'.status = 403
         /\ Stored' = Stored
         /\ emitted' = NoEmits
         /\ UNCHANGED queueVars]_vars

\* C4: unsendMessage on a stored message by its sender leaves that message
\* with isUnsent = true and an empty content payload (text in version 1,
\* encryptedContent in version 2), on both storage paths.
C4_UnsendClears ==
  [][\A i \in 1..Len(Stored) :
       UnsendMessage(Stored[i].from, Stored[i]._id) =>
         /\ Stored'[i].isUnsent
         /\ Content(Stored'[i]) = ""]_vars

\* Message number n is listed by getConversation for viewer with other.
Listed(n, viewer, other) ==
  \E k \in 1..Len(Conversation(viewer, other)) :
    Conversation(viewer, other)[k].n = n

\* C5: once a participant a has called deleteForMe on a message of the
\* conversation between a and b, getConversation by a excludes it and
\* getConversation by b still includes it; steps other than b's own
\* deleteForMe naming that message keep both so.
C5_PerViewerDelete ==
  [][\A a \in Users : \A b \in Users \ {a}, i \in 1..Len(Stored) :
       LET m == Stored[i]
           between == {m.from, m.to} = {a, b}
       IN /\ (between /\ DeleteForMe(a, m._id) /\ Listed(i, b, a)) =>
               (~Listed(i, a, b))' /\ Listed(i, b, a)'
          /\ (between /\ InSeq(a, m.deletedFor)) => (~Listed(i, a, b))'
          /\ (between /\ Listed(i, b, a) /\ ~DeleteForMe(b, m._id)) =>
               Listed(i, b, a)']_vars

Occurrences(x, s) == Cardinality({k \in 1..Len(s) : s[k] = x})

\* C6: a deleteForMe that succeeds leaves the caller exactly once in the
\* addressed message's deletedFor, and calling it again with the same
\* message id and caller leaves the whole store as it is.
C6_DeleteIdempotent ==
  [][\A u \in Users, id \in RequestIds :
       (DeleteForMe(u, id) /\ res'.status = 200) =>
         /\ Occurrences(u, Stored'[FindIdx(Stored', id)].deletedFor) = 1
         /\ DeleteForMeResult(Stored', id, u).msgs = Stored'
         /\ \A j \in 1..Len(Stored) :
              j # FindIdx(Stored, id) => Stored'[j] = Stored[j]]_vars

C6_Witness ==
  /\ res.op = "deleteForMe" /\ res.status = 200
  /\ \E i \in 1..Len(Stored) :
       /\ Stored[i]._id = res.ids[1]
       /\ Len(Stored[i].deletedFor) = 2

IsSorted(s) == \A k \in 1..(Len(s) - 1) : s[k].createdAt <= s[k + 1].createdAt

\* C7: getConversation lists every pair's messages in non-decreasing order
\* of createdAt, whatever the order in which the inserts landed.
C7_Ordered ==
  \A viewer \in Users, other \in Users : IsSorted(Conversation(viewer, other))

C7_Witness ==
  /\ UsesDb /\ Len(db) = 2
  /\ db[1].createdAt > db[2].createdAt
  /\ {db[1].from, db[1].to} = {"alice", "bob"}
  /\ {db[2].from, db[2].to} = {"alice", "bob"}
  /\ res.op = "getConversation" /\ res.ids = <<db[2]._id, db[1]._id>>

\* C8: once more than TTL.PRESENCE seconds have passed since a user's last
\* setUserOnline, with no setUserOffline after it, the user is neither
\* reported by isUserOnline nor listed by getOnlineUsers.
C8_PresenceExpires ==
  \A u \in Users :
    (/\ lastCacheCall[u].op = "online"
     /\ now - lastCacheCall[u].at > TTL_PRESENCE * 1000) =>
      /\ ~CacheIsUserOnline(CacheState, redisConnected, u)
      /\ u \notin getOnlineUsers(CacheState, redisConnected)

\* C9: run against the same requests, the durable path and the fallback path
\* answer with the same outcome and the same messages in the same order, and
\* keep the same seen, isUnsent and deletedFor values and the same content on
\* every message.
C9_PathsEquivalent ==
  /\ twin.res.op = res.op
  /\ twin.res.status = res.status
  /\ twin.res.ns = res.ns
  /\ twin.res.seen = res.seen
  /\ Len(db) = Len(messageStore.messages)
  /\ \A i \in 1..Len(db) :
       LET d == db[i]
           m == messageStore.messages[i]
       IN /\ d.seen = m.seen
          /\ d.isUnsent = m.isUnsent
          /\ d.deletedFor = m.deletedFor
          /\ Content(d) = Content(m)

\* C10: one successful sendMessage between distinct users pushes the message
\* exactly once to every socket registered for the recipient or the sender
\* and to no other socket.  Version 1 pushes in the step that completes
\* the send; version 2 pushes on the later flushes, where no socket may get
\* a message that was never unsent a second time.
C10_PushOnce ==
  [][/\ (SendCompletes /\ version = 1) =>
          LET m == Stored'[Len(Stored')]
          IN m.from # m.to =>
               \A c \in Conns :
                 Occurrences(Event("message", <<m._id>>, ""), emitted'[c])
                   = IF c \in SocketsOf(m.to) \cup SocketsOf(m.from)
                     THEN 1 ELSE 0
     /\ version = 2 =>
          \A c \in Conns, i \in 1..Len(Stored') :
            (Stored'[i].from # Stored'[i].to /\ ~Stored'[i].isUnsent) =>
              Occurrences(Stored'[i]._id, received'[c]) <= 1]_vars

\* C11: a successful markSeen on an unseen message between distinct users
\* sets its seen flag and pushes exactly one 'seen' event to every socket
\* registered for the sender and none to any other socket.
C11_SeenNotified ==
  [][\A i \in 1..Len(Stored) :
       LET m == Stored[i]
       IN (m.from # m.to /\ ~m.seen /\ MarkSeen(m._id)) =>
            /\ res'.op = "markSeen" /\ res'.status = 200
            /\ Stored'[i].seen
            /\ \A c \in Conns :
                 Occurrences(Event("seen", <<m._id>>, ""), emitted'[c])
                   = IF c \in SocketsOf(m.from) THEN 1 ELSE 0]_vars

\* C12: the disconnect of a socket whose user still has another registered
\* socket leaves the user online in the presence store and with a heartbeat,
\* and broadcasts no 'userOffline' for that user.
C12_LastConnectionOnly ==
  [][\A c \in Conns :
       LET u == socketUserId[c]
       IN (/\ Disconnect(c)
           /\ u # NoUser
           /\ SocketsOf(u) \ {c} # {}
           /\ CacheIsUserOnline(CacheState, redisConnected, u)
           /\ u \in activeHeartbeats) =>
            /\ CacheIsUserOnline(CacheState', redisConnected', u)
            /\ u \in activeHeartbeats'
            /\ \A d \in Conns :
                 ~InSeq(Event("userOffline", <<>>, u), emitted'[d])]_vars

\* C15: a typing event from an identified socket with target user t reaches
\* only sockets registered for t, and writes nothing to the message store
\* or the presence store.
C15_TypingPrivate ==
  [][\A c \in Conns, t \in Users :
       (Typing(c, t) /\ socketUserId[c] # NoUser) =>
         /\ \A d \in Conns :
              emitted'[d] # <<>> => d \in SocketsOf(t)
         /\ UNCHANGED <<msgVars, redis, memoryStore>>]_vars

C13_OfflineClears ==
  [][\A u \in Users :
       (CacheSetUserOffline(u) /\ lastCacheCall[u].op = "online") =>
         /\ ~CacheIsUserOnline(CacheState', redisConnected', u)
         /\ u \notin getOnlineUsers(CacheState', redisConnected')]_vars

\* C14: markSeen on an id no message has answers 404, changes no message and
\* emits nothing, on both storage paths; on an existing message it leaves
\* seen = true, and leaves the store as it was when the message was already
\* seen.
C14_MarkSeenMissing ==
  [][\A id \in RequestIds :
       MarkSeen(id) =>
         LET i == FindIdx(Stored, id)
         IN IF i = 0
            THEN /\ res'.op = "markSeen" /\ res'.status = 404
                 /\ Stored' = Stored
                 /\ emitted' = NoEmits
            ELSE /\ Stored'[i].seen
                 /\ Stored[i].seen => Stored' = Stored]_vars

\* C16: across every step, each stored message keeps its from, to and
\* createdAt; seen and isUnsent never go from true to false; deletedFor keeps
\* every member it had and never holds a user twice.
C16_MessageMonotone ==
  [][\A i \in 1..Len(Stored) :
       /\ i <= Len(Stored')
       /\ Stored'[i].from = Stored[i].from
       /\ Stored'[i].to = Stored[i].to
       /\ Stored'[i].createdAt = Stored[i].createdAt
       /\ Stored[i].seen => Stored'[i].seen
       /\ Stored[i].isUnsent => Stored'[i].isUnsent
       /\ \A u \in Users :
            /\ InSeq(u, Stored[i].deletedFor) => InSeq(u, Stored'[i].deletedFor)
            /\ Occurrences(u, Stored'[i].deletedFor) <= 1]_vars

C16_Witness ==
  /\ Len(Stored) = 1
  /\ Stored[1].from = "alice" /\ Stored[1].to = "bob"
  /\ Stored[1].seen /\ Stored[1].isUnsent
  /\ Len(Stored[1].deletedFor) = 2
  /\ res.op = "markSeen" /\ res.status = 200

C20_BatchOrder ==
  [][/\ \A u \in Users :
          FlushQueue(u) =>
            /\ Len(Batched(u)) <= Len(pendingLog[u])
            /\ Batched(u) = SubSeq(pendingLog[u], 1, Len(Batched(u)))
     /\ timers' = <<>> => \A u \in Users : pendingLog'[u] = <<>>]_vars

\* C19: once the disconnect handler of a socket has run, in either server,
\* the socket's id is in no user's set of userSockets.
C19_DisconnectUnregisters ==
  [][\A c \in Conns :
       (Disconnect(c) \/ OldDisconnect(c)) =>
         \A u \in Users : (c \notin SocketsOf(u))']_vars

\* This step pushes to the sockets registered for userId: the completing
\* step of a version 1 sendMessage from or to userId, or a version 2 flush
\* of a batch for userId.
PushTargets(userId) ==
  \/ /\ version = 1 /\ SendCompletes
     /\ userId \in {Stored'[Len(Stored')].from, Stored'[Len(Stored')].to}
  \/ /\ version = 2 /\ FlushQueue(userId) /\ Batched(userId) # <<>>

\* C21: a push that targets a socket id registered for the user but already
\* closed leaves that id out of userSockets.
C21_ClosedPushCleans ==
  [][\A u \in Users, c \in Conns :
       (c \in SocketsOf(u) /\ c \notin connected /\ PushTargets(u)) =>
         (c \notin SocketsOf(u))']_vars

\* The presence record of userId is readable and at most presenceTimeout old.
PresenceFresh(userId) ==
  /\ getUserPresence(CacheState, redisConnected, userId, now) # NoPresence
  /\ now - getUserPresence(CacheState, redisConnected, userId, now).timestamp
       <= presenceTimeout

\* C24: when a run of cleanupInactiveUsers completes, every user still in
\* the online-users set has a presence record at most presenceTimeout old;
\* the users whose record was older or had expired have left the set and a
\* 'userOffline' event went to every live socket for each of them.
C24_SweepRemovesStale ==
  [][(CleanupInactiveUsers /\ lastEvent'.event = "cleanup") =>
       \A u \in Users :
         /\ u \in getOnlineUsers(CacheState', redisConnected') =>
              PresenceFresh(u)'
         /\ (u \in getOnlineUsers(CacheState, redisConnected)
               /\ ~PresenceFresh(u)) =>
              /\ u \notin getOnlineUsers(CacheState', redisConnected')
              /\ \A c \in connected :
                   InSeq(Event("userOffline", <<>>, u), emitted'[c])]_vars

\* userId has had a deleteForMe with message id `id` succeed: the only write
\* that puts userId into a deletedFor.
HasDeletedForMe(userId, id) ==
  \E j \in 1..Len(Stored) :
    Stored[j]._id = id /\ InSeq(userId, Stored[j].deletedFor)

\* userId has had an unsendMessage with message id `id` succeed: the only
\* write that sets isUnsent, allowed to the sender alone.
HasUnsent(userId, id) ==
  \E j \in 1..Len(Stored) :
    Stored[j]._id = id /\ Stored[j].isUnsent /\ Stored[j].from = userId

\* A message from a to b that b deleted for themselves and a unsent, in
\* either order, is unsent, excluded from b's conversation and included in
\* a's.
DeletedAndUnsentViews ==
  \A a \in Users : \A b \in Users \ {a}, i \in 1..Len(Stored) :
    LET m == Stored[i]
    IN (/\ m.from = a /\ m.to = b
        /\ HasDeletedForMe(b, m._id) /\ ~HasDeletedForMe(a, m._id)
        /\ HasUnsent(a, m._id)) =>
         /\ m.isUnsent
         /\ ~Listed(i, b, a)
         /\ Listed(i, a, b)

\* C25: once b has called deleteForMe and a has called unsendMessage on a
\* message from a to b, in either order, b's conversation excludes it and
\* a's includes it, unsent.  No unsendMessage changes any deletedFor or
\* seen, and no deleteForMe changes any content or isUnsent.
C25_DeleteUnsendIndependent ==
  [][/\ DeletedAndUnsentViews'
     /\ \A u \in Users, id \in RequestIds, j \in 1..Len(Stored) :
          /\ UnsendMessage(u, id) =>
               /\ Stored'[j].deletedFor = Stored[j].deletedFor
               /\ Stored'[j].seen = Stored[j].seen
          /\ DeleteForMe(u, id) =>
               /\ Content(Stored'[j]) = Content(Stored[j])
               /\ Stored'[j].isUnsent = Stored[j].isUnsent]_vars

\* C28: in the in-memory fallback store no two messages carry the same _id,
\* so a request by _id addresses the one message its sendMessage returned.
C28_DistinctIds ==
  ~UsesDb =>
    \A i \in 1..Len(messageStore.messages), j \in 1..Len(messageStore.messages) :
      i # j => messageStore.messages[i]._id # messageStore.messages[j]._id

\* C29: a message a user sends to themselves reaches each socket at most
\* once: the completing step of version 1 pushes at most one 'message' event
\* for it to a socket, and no 'messages' batch of version 2 lists it twice.
C29_SelfSendOnce ==
  [][/\ (SendCompletes /\ version = 1) =>
          LET m == Stored'[Len(Stored')]
          IN m.from = m.to =>
               \A c \in Conns :
                 Occurrences(Event("message", <<m._id>>, ""), emitted'[c]) <= 1
     /\ \A c \in Conns : \A k \in 1..Len(emitted'[c]), i \in 1..Len(Stored') :
          (emitted'[c][k].event = "messages"
             /\ Stored'[i].from = Stored'[i].to /\ ~Stored'[i].isUnsent) =>
            Occurrences(Stored'[i]._id, emitted'[c][k].ids) <= 1]_vars

\* C30: userSockets maps no user to an empty set: a user id is a key exactly
\* when at least one socket id is registered for it.
C30_NoEmptySets ==
  \A u \in DOMAIN userSockets : userSockets[u] # {}

C30_Witness ==
  /\ lastEvent = [event |-> "disconnect", conn |-> "s1", user |-> "alice"]
  /\ "alice" \notin DOMAIN userSockets
  /\ "bob" \in DOMAIN userSockets

\* No socket handler is suspended at an await.
Quiescent == tasks = {}

\* C26: once all identify and disconnect handlers have completed, a user has
\* an active heartbeat timer only if userSockets holds at least one
\* connection of that user.
C26_TimersMatchRegistry ==
  Quiescent => \A u \in activeHeartbeats : SocketsOf(u) # {}

\* C27: once all identify, activity and disconnect handlers have completed,
\* a user without a connection in userSockets is not in the online-users set.
C27_PresenceMatchesRegistry ==
  Quiescent =>
    \A u \in Users :
      SocketsOf(u) = {} => ~CacheIsUserOnline(CacheState, redisConnected, u)

\* An updateProfile of userId responds in this step.
UpdateCompletes(userId) == profile'.done[userId] # profile.done[userId]

\* C22: after a successful updateProfile of U no match-list cache entry of U
\* written before the update is readable, and the profile cache entry of U
\* holds the updated profile or is absent.
C22_UpdateInvalidates ==
  [][\A u \in Users :
       UpdateCompletes(u) =>
         /\ \A page \in Pages :
              ~getMatches(profile', redisConnected', u, page)
         /\ getUserProfile(profile', redisConnected', u)
              \in {NoProfile, profile'.store[u]}]_vars

\* C23: a getProfile that starts after an updateProfile of the same user
\* has completed returns that update's profile or a later one, as it would
\* without the cache.
C23_CacheTransparent ==
  profile.res.user # NoUser => profile.res.val >= profile.res.since

====
